---- MODULE Spec2Model ----
(***************************************************************************)
(* GhostWriter (src/ghostwriter_app.py): the recording / transcription     *)
(* lifecycle of GhostWriterApp and its thread-to-UI update queue.          *)
(*                                                                         *)
(* Threads of the program and how they appear here:                        *)
(*   - the Tk main loop (UI thread): poll_updates, the root.after(0, ...)  *)
(*     callbacks of the floating indicator, on_hotkey_changed;       *)
(*   - the pynput listener thread ("kbd"): on_key_press / on_key_release;  *)
(*   - the pystray thread ("tray"): toggle_recording;                      *)
(*   - the sounddevice callback thread: audio_callback;                    *)
(*   - one worker thread per stop_recording: process_recording.            *)
(* A thread's handler is split exactly at its accesses to fields shared    *)
(* with other threads (is_recording, audio_data, current_status,           *)
(* update_queue, Tk's after-queue); everything between two such accesses   *)
(* is one step.                                                            *)
(***************************************************************************)
EXTENDS Integers, Sequences, FiniteSets, TLC

\* ------------------------------------------------------------ bounds
\* hotkey presses and tray toggles delivered in one run of Spec and SpecSession
MaxTriggers == 2
\* hotkey presses and tray toggles delivered in one run of SpecCore
MaxTriggersCore == 3
\* chunks the audio callback may put in one buffer
MaxChunks == 2
\* hotkey-setting changes in one run
MaxHotkeyChanges == 1
\* calls of the settings handlers in one run of SpecSettings and SpecHotkey
MaxSettingsChanges == 1
\* hotkey presses delivered in one run of SpecHotkey
MaxTriggersHotkey == 2
\* modifier keys down at once in SpecModifiers
MaxHeld == 3

\* ------------------------------------------------- program constants
SAMPLE_RATE == 16000

STATUS_READY == "ready"
STATUS_RECORDING == "recording"
STATUS_TRANSCRIBING == "transcribing"
STATUS_ERROR == "error"

\* The hotkey settings the settings menu offers in Spec (a part of
\* HOTKEY_OPTIONS).
HOTKEY_OPTIONS == {"F8", "F9"}
DEFAULT_HOTKEY == "F8"

\* The function-key entries of HOTKEY_OPTIONS.
FUNCTION_KEYS == {"F1", "F2", "F3", "F4", "F5", "F6",
                  "F7", "F8", "F9", "F10", "F11", "F12"}

\* The combination entries of HOTKEY_OPTIONS.
COMBO_HOTKEYS == {"Ctrl+Shift+R", "Ctrl+Shift+D", "Ctrl+Alt+V"}

\* The values of PASTE_DELAY_OPTIONS, as Python prints them.
PASTE_DELAY_OPTIONS == {"0.05", "0.1", "0.15", "0.25", "0.5"}

\* ---------------------------------------------------- Python values
\* A Python value is its type and its repr.
PyStr(x) == [t |-> "str", v |-> x]
PyBool(b) == [t |-> "bool", v |-> IF b THEN "True" ELSE "False"]
PyFloat(x) == [t |-> "float", v |-> x]
PyInt(x) == [t |-> "int", v |-> x]
PyNone == [t |-> "NoneType", v |-> "None"]

SettingsKeys == {"hotkey", "sound_enabled", "paste_delay", "start_minimized",
                 "run_on_startup"}

DEFAULT_SETTINGS ==
    [key \in SettingsKeys |->
        CASE key = "hotkey" -> PyStr(DEFAULT_HOTKEY)
          [] key = "sound_enabled" -> PyBool(TRUE)
          [] key = "paste_delay" -> PyFloat("0.15")
          [] key = "start_minimized" -> PyBool(FALSE)
          [] key = "run_on_startup" -> PyBool(FALSE)]

\* ------------------------------------------------------ settings.json
\* A JSON value as it stands in the text: its kind and its characters.
JsonString(x) == [j |-> "string", v |-> x]
JsonNumber(x) == [j |-> "number", v |-> x]
JsonLiteral(x) == [j |-> "literal", v |-> x]

\* the file does not exist
NoFile == [kind |-> "none", doc |-> << >>]
\* the file holds no JSON document (json.load raises)
Unparsable == [kind |-> "unparsable", doc |-> << >>]
\* the file exists and open raises (no permission)
Unreadable == [kind |-> "unreadable", doc |-> << >>]
\* the file holds a JSON object: doc, its keys to their values
FileObject(doc) == [kind |-> "object", doc |-> doc]
\* the file holds a JSON document that is no object: an array, a string, a
\* number, true, false or null
FileOther(what) == [kind |-> what, doc |-> << >>]

NonObjectFiles == {FileOther(what) : what \in {"array", "string", "number", "literal"}}

\* (faulty variant of json_encode: booleans written through str())
json_encode_str_bool(x) ==
    CASE x.t = "str" -> JsonString(x.v)
      [] x.t = "bool" -> JsonString(x.v)
      [] x.t = "NoneType" -> JsonLiteral("null")
      [] OTHER -> JsonNumber(x.v)

\* json.dump of one value: str -> string, True/False -> true/false,
\* None -> null, float and int -> number (float.__repr__, int.__repr__)
json_encode(x) ==
    CASE x.t = "str" -> JsonString(x.v)
      [] x.t = "bool" -> JsonLiteral(IF x.v = "True" THEN "true" ELSE "false")
      [] x.t = "NoneType" -> JsonLiteral("null")
      [] OTHER -> JsonNumber(x.v)

\* the number texts with a fraction part
FloatTexts == PASTE_DELAY_OPTIONS

\* json.load of one value: string -> str, true/false -> bool, null -> None,
\* number -> float when it has a fraction or exponent part, int otherwise
json_decode(y) ==
    CASE y.j = "string" -> PyStr(y.v)
      [] y.j = "literal" -> IF y.v = "null" THEN PyNone ELSE PyBool(y.v = "true")
      [] OTHER -> IF y.v \in FloatTexts THEN PyFloat(y.v) ELSE PyInt(y.v)

\* json.dump(self.settings, f): the object written
json_dump(d) == [key \in DOMAIN d |-> json_encode(d[key])]

\* json.load(f) of a file holding an object: the dict returned
json_load(doc) == [key \in DOMAIN doc |-> json_decode(doc[key])]

\* (faulty variant of load_settings: the loaded dict replaces the settings)
load_settings_replace(current, file) ==
    IF file.kind # "object" THEN current ELSE json_load(file.doc)

\* (faulty variant of load_settings: the settings are emptied before the
\* file is looked at)
load_settings_clears_first(current, file) ==
    IF file.kind # "object"
    THEN << >>
    ELSE LET loaded == json_load(file.doc)
         IN  [key \in DOMAIN current |->
                 IF key \in DOMAIN DEFAULT_SETTINGS /\ key \in DOMAIN loaded
                 THEN loaded[key] ELSE current[key]]

\* load_settings: self.settings after it. A missing file is left alone; an
\* exception of open or json.load is swallowed; for a document that is no
\* object, `key in loaded` (number, literal) or `loaded[key]` (array, string)
\* raises TypeError before anything is assigned, and is swallowed too.
load_settings(current, file) ==
    IF file.kind # "object"
    THEN current
    ELSE LET loaded == json_load(file.doc)
         IN  [key \in DOMAIN current |->
                 IF key \in DOMAIN DEFAULT_SETTINGS /\ key \in DOMAIN loaded
                 THEN loaded[key] ELSE current[key]]

\* save_settings: settings.json after it; an exception of open is swallowed
\* and leaves the file as it was
save_settings(current, file, writable) ==
    IF writable THEN FileObject(json_dump(current)) ELSE file

\* frames delivered by one audio callback (a quarter of a second)
Frames == {4000}

\* the value None
None == <<"None">>

Threads == {"kbd", "tray"}

VARIABLES
    phase,              \* "constructed" (after __init__), "running" (mainloop)
    whisper_exists,     \* os.path.exists(whisper_path) at startup
    model_exists,       \* os.path.exists(model_path) at startup
    files_ok,           \* self.files_ok
    error_message,      \* self.error_message
    listening,          \* keyboard listener and audio stream are started
    settings,           \* self.settings: option name -> Python value
    settings_file,      \* settings.json: NoFile, Unreadable, Unparsable,
                        \* FileObject(doc) or FileOther(what)
    settings_writable,  \* settings.json can be opened for writing
    is_recording,       \* self.is_recording
    audio_data,         \* self.audio_data: the chunks, each its number of frames
    current_status,     \* self.current_status
    last_transcription, \* self.last_transcription
    update_queue,       \* self.update_queue (queue.Queue)
    after_queue,        \* Tk's queue of root.after(0, ...) callbacks
    indicator,          \* GhostIndicator.status
    status_label,       \* text of self.status_label
    transcription_text, \* content of self.transcription_text
    ui_pc,              \* "loop" | "polling": the UI thread is inside poll_updates
    trig,               \* position of the kbd and tray threads in their handler
    audio_pc,           \* "idle" | "append": audio_callback passed its is_recording test
    audio_chunk,        \* the chunk audio_callback is about to append
    workers,            \* the process_recording threads, in spawn order
    clipboard,          \* the system clipboard
    \* ---- history (no effect on the program)
    triggers,           \* hotkey presses and tray toggles still to come
    hotkey_changes,     \* calls of the settings handlers still to come
    enq_count,          \* entries put on update_queue so far
    applied,            \* ids of the entries poll_updates applied, in order
    armed_during,       \* a trigger set is_recording while a worker was running
    \* the keyboard
    ctrl_pressed,       \* self.ctrl_pressed
    shift_pressed,      \* self.shift_pressed
    alt_pressed,        \* self.alt_pressed
    held                \* the modifier keys that are down: those whose last event
                        \* delivered to the listener is a press

vars == << phase, whisper_exists, model_exists, files_ok, error_message, listening,
           settings, settings_file, settings_writable, is_recording, audio_data, current_status, last_transcription,
           update_queue, after_queue, indicator, status_label, transcription_text,
           ui_pc, trig, audio_pc, audio_chunk, workers, clipboard,
           triggers, hotkey_changes, enq_count, applied, armed_during,
           ctrl_pressed, shift_pressed, alt_pressed, held >>

\* ------------------------------------------------------------ helpers
RECURSIVE SumSeq(_)
SumSeq(s) == IF s = << >> THEN 0 ELSE Head(s) + SumSeq(Tail(s))

RECURSIVE lstrip(_)
lstrip(s) == IF s # << >> /\ Head(s) = " " THEN lstrip(Tail(s)) ELSE s

RECURSIVE rstrip(_)
rstrip(s) ==
    IF s # << >> /\ s[Len(s)] = " " THEN rstrip(SubSeq(s, 1, Len(s) - 1)) ELSE s

\* str.strip()
strip(s) == rstrip(lstrip(s))

\* str.isspace(): non-empty and all whitespace
isspace(s) == s # << >> /\ \A i \in 1..Len(s) : s[i] = " "

\* no character but whitespace (history: how an output is classified)
isblank(s) == \A i \in 1..Len(s) : s[i] = " "

\* (faulty variant of truthy: `if text is not None` for `if text`)
truthy_not_none(t) == t # None

\* truth value of a str-or-None
truthy(t) == t # None /\ t # << >>

\* the standard outputs of the recognizer that are tried
Outputs == { << >>, <<" ">>, <<"b">>, <<" ", "a", " ">> }

\* (faulty variant of check_files_exist: the model file is not looked for)
check_files_exist_exe_only(w, m) == w

\* check_files_exist: the value returned and the error message
check_files_exist(w, m) == w /\ m

missing_message(w, m) ==
    IF w /\ m THEN << >>
    ELSE <<"Missing: ">> \o (IF w THEN << >> ELSE <<"whisper-cli.exe">>)
                         \o (IF m THEN << >> ELSE <<"ggml-tiny.bin">>)

\* an entry of update_queue; id is its position in the order of puts
StatusEntry(state, message, id) ==
    [kind |-> "status", state |-> state, text |-> message, id |-> id]

TranscriptionEntry(text, id) ==
    [kind |-> "transcription", state |-> "", text |-> text, id |-> id]

\* _update_status_ui: the label and the text area after it
status_label_of(state, old) ==
    CASE state = STATUS_READY -> "Ready"
      [] state = STATUS_RECORDING -> "Listening..."
      [] state = STATUS_TRANSCRIBING -> "Thinking..."
      [] state = STATUS_ERROR -> "Error"
      [] OTHER -> old

status_text_of(state, message, hk, old) ==
    CASE state = STATUS_READY -> <<"Press ", hk, " to start listening...">>
      [] state = STATUS_ERROR -> message
      [] OTHER -> old

\* a worker thread that has not run yet
\* (buf, clean: the session's buffer when capture stopped, and whether that
\* buffer was final then: no audio_callback and no other start_recording or
\* stop_recording under way; history only)
NewWorker(buf, clean) ==
    [pc |-> "begin", st |-> "", msg |-> << >>, cb |-> "", next |-> "",
     recording |-> 0, text |-> None,
     invoked |-> FALSE, outcome |-> "", temp_written |-> FALSE, temp_exists |-> FALSE,
     enq_text |-> FALSE, copied |-> FALSE, pasted |-> FALSE,
     showed |-> FALSE, hide_after |-> FALSE, last_status |-> "",
     stop_len |-> SumSeq(buf), stop_chunks |-> Len(buf), stop_clean |-> clean]

WorkerRunning(w) == w.pc \notin {"done", "crashed"}

SomeWorkerRunning == \E i \in 1..Len(workers) : WorkerRunning(workers[i])

\* ------------------------------------------------------------ startup
InitOf(ntriggers, nchanges, files, writable) ==
    /\ phase = "constructed"
    /\ whisper_exists \in BOOLEAN
    /\ model_exists \in BOOLEAN
    /\ files_ok = check_files_exist(whisper_exists, model_exists)
    /\ error_message = missing_message(whisper_exists, model_exists)
    /\ listening = FALSE
    /\ settings_file \in files
    /\ settings_writable \in writable
    /\ settings = load_settings(DEFAULT_SETTINGS, settings_file)
    /\ is_recording = FALSE
    /\ audio_data = << >>
    /\ current_status = STATUS_READY
    /\ last_transcription = << >>
    /\ update_queue = << >>
    /\ after_queue = << >>
    /\ indicator = "idle"
    /\ status_label = "Ready"
    /\ transcription_text = <<"Press F8 to dictate...">>
    /\ ui_pc = "loop"
    /\ trig = [t \in Threads |-> "idle"]
    /\ audio_pc = "idle"
    /\ audio_chunk = 0
    /\ workers = << >>
    /\ clipboard = <<"old">>
    /\ triggers = ntriggers
    /\ hotkey_changes = nchanges
    /\ enq_count = 0
    /\ applied = << >>
    /\ armed_during = FALSE
    /\ ctrl_pressed = FALSE
    /\ shift_pressed = FALSE
    /\ alt_pressed = FALSE
    /\ held = {}

\* start_keyboard_listener, run by the UI thread: ok is FALSE when opening the
\* audio stream or the listener raises; the handler then reports the error
\* through update_status (both of its steps, the caller being the only
\* writer at that point of the UI thread's handler).
start_keyboard_listener(ok) ==
    /\ listening' = ok
    /\ IF ok
       THEN UNCHANGED << current_status, update_queue, enq_count >>
       ELSE /\ current_status' = STATUS_ERROR
            /\ update_queue' = Append(update_queue,
                                  StatusEntry(STATUS_ERROR, <<"Failed to start">>, enq_count + 1))
            /\ enq_count' = enq_count + 1

\* GhostWriterApp.run up to mainloop(): no other thread of the program exists
\* before it, so it is one step: create_gui (its first poll_updates finds the
\* queue empty, then the error status when a required file is missing), the
\* indicator, the tray icon, start_keyboard_listener (ok as above).
Run ==
    /\ phase = "constructed"
    /\ phase' = "running"
    /\ \E ok \in BOOLEAN :
         /\ listening' = ok
         /\ LET q1 == IF files_ok THEN update_queue
                      ELSE Append(update_queue,
                                  StatusEntry(STATUS_ERROR, error_message, enq_count + 1))
                n1 == IF files_ok THEN enq_count ELSE enq_count + 1
            IN  IF ok
                THEN /\ update_queue' = q1
                     /\ enq_count' = n1
                     /\ current_status' = IF files_ok THEN current_status ELSE STATUS_ERROR
                ELSE /\ update_queue' = Append(q1,
                                            StatusEntry(STATUS_ERROR, <<"Failed to start">>, n1 + 1))
                     /\ enq_count' = n1 + 1
                     /\ current_status' = STATUS_ERROR
    /\ UNCHANGED << whisper_exists, model_exists, files_ok, error_message, settings,
                    settings_file, settings_writable,
                    is_recording, audio_data, last_transcription, after_queue, indicator,
                    status_label, transcription_text, ui_pc, trig, audio_pc, audio_chunk,
                    workers, clipboard, triggers, hotkey_changes, applied,
                    armed_during, ctrl_pressed, shift_pressed, alt_pressed, held >>

\* ------------------------------------------- keyboard and tray threads
\* hotkey.lower() of a function-key setting: the name of the pynput Key
KeyName ==
    [hk \in FUNCTION_KEYS |->
        CASE hk = "F1" -> "f1" [] hk = "F2" -> "f2" [] hk = "F3" -> "f3"
          [] hk = "F4" -> "f4" [] hk = "F5" -> "f5" [] hk = "F6" -> "f6"
          [] hk = "F7" -> "f7" [] hk = "F8" -> "f8" [] hk = "F9" -> "f9"
          [] hk = "F10" -> "f10" [] hk = "F11" -> "f11" [] hk = "F12" -> "f12"]

\* (faulty variant of is_hotkey_pressed: the default key whatever the setting)
is_hotkey_pressed_default(hk, key) == key = "f8"

\* is_hotkey_pressed (hk: the hotkey setting, a str "F<digits>" or one of the
\* combinations). Function keys: key == getattr(Key, hotkey.lower(), Key.f8).
\* Combinations: the two flags and key.char; a character key is written as
\* the lowercase letter the listener reports for it.
is_hotkey_pressed(hk, key) ==
    CASE hk.v = "Ctrl+Shift+R" -> ctrl_pressed /\ shift_pressed /\ key = "r"
      [] hk.v = "Ctrl+Shift+D" -> ctrl_pressed /\ shift_pressed /\ key = "d"
      [] hk.v = "Ctrl+Alt+V" -> ctrl_pressed /\ alt_pressed /\ key = "v"
      [] OTHER -> key = (IF hk.v \in DOMAIN KeyName THEN KeyName[hk.v] ELSE "f8")

\* the keys pressed in Spec
Keys == {"f8", "f9"}

\* the keys of the keyboard: the function keys and a character key
AllKeys == {KeyName[hk] : hk \in FUNCTION_KEYS} \cup {"r"}

\* the modifier keys on_key_press and on_key_release look for
CtrlKeys == {"ctrl_l", "ctrl_r"}

ShiftKeys == {"shift_l", "shift_r", "shift"}

AltKeys == {"alt_l", "alt_r", "alt_gr"}

ModifierKeys == CtrlKeys \cup ShiftKeys \cup AltKeys

\* the character keys of the combinations
LetterKeys == {"r", "d", "v"}

\* the keys pressed in SpecModifiers
ComboKeys == ModifierKeys \cup LetterKeys \cup {"f8"}

\* (faulty variant of toggle_branch: a trigger always starts)
toggle_branch_always_start(recording) == "start"

\* `if not self.is_recording: start_recording() else: stop_recording()` of
\* on_key_press and toggle_recording: the handler that is called
toggle_branch(recording) == IF ~recording THEN "start" ELSE "stop"

TrigUnchanged ==
    UNCHANGED << phase, whisper_exists, model_exists, files_ok, error_message, listening,
                 settings, settings_file, settings_writable, last_transcription, indicator, status_label, transcription_text,
                 ui_pc, audio_pc, audio_chunk, clipboard, hotkey_changes, applied,
                 ctrl_pressed, shift_pressed, alt_pressed, held >>

\* on_key_press(key) up to its branch: the hotkey test, then the read of
\* is_recording that picks start_recording or stop_recording.
on_key_press(key) ==
    /\ phase = "running" /\ listening
    /\ trig["kbd"] = "idle"
    /\ is_hotkey_pressed(settings["hotkey"], key)
    /\ triggers > 0
    /\ triggers' = triggers - 1
    /\ trig' = [trig EXCEPT !["kbd"] = toggle_branch(is_recording)]
    /\ TrigUnchanged
    /\ UNCHANGED << is_recording, audio_data, current_status, update_queue, after_queue,
                    workers, enq_count, armed_during >>

\* on_key_press(key) for a key that is not the hotkey: nothing happens
on_other_key(key) ==
    /\ phase = "running" /\ listening
    /\ trig["kbd"] = "idle"
    /\ key \notin ModifierKeys
    /\ ~is_hotkey_pressed(settings["hotkey"], key)
    /\ UNCHANGED vars

\* on_key_press(key) for a modifier key: its flag is set (no hotkey is a
\* modifier key, so the hotkey test that follows fails)
on_modifier_press(key) ==
    /\ phase = "running" /\ listening
    /\ trig["kbd"] = "idle"
    /\ key \in ModifierKeys
    /\ Cardinality(held \cup {key}) <= MaxHeld
    /\ held' = held \cup {key}
    /\ ctrl_pressed' = IF key \in CtrlKeys THEN TRUE ELSE ctrl_pressed
    /\ shift_pressed' = IF key \in ShiftKeys THEN TRUE ELSE shift_pressed
    /\ alt_pressed' = IF key \in AltKeys THEN TRUE ELSE alt_pressed
    /\ UNCHANGED << phase, whisper_exists, model_exists, files_ok, error_message,
                    listening, settings, settings_file, settings_writable, is_recording,
                    audio_data, current_status, last_transcription, update_queue,
                    after_queue, indicator, status_label, transcription_text, ui_pc,
                    trig, audio_pc, audio_chunk, workers, clipboard, triggers,
                    hotkey_changes, enq_count, applied, armed_during >>

\* on_key_release(key) for a modifier key that is down: its flag is cleared
\* (the release of any other key changes nothing)
on_key_release(key) ==
    /\ phase = "running" /\ listening
    /\ trig["kbd"] = "idle"
    /\ key \in held
    /\ held' = held \ {key}
    /\ ctrl_pressed' = IF key \in CtrlKeys THEN FALSE ELSE ctrl_pressed
    /\ shift_pressed' = IF key \in ShiftKeys THEN FALSE ELSE shift_pressed
    /\ alt_pressed' = IF key \in AltKeys THEN FALSE ELSE alt_pressed
    /\ UNCHANGED << phase, whisper_exists, model_exists, files_ok, error_message,
                    listening, settings, settings_file, settings_writable, is_recording,
                    audio_data, current_status, last_transcription, update_queue,
                    after_queue, indicator, status_label, transcription_text, ui_pc,
                    trig, audio_pc, audio_chunk, workers, clipboard, triggers,
                    hotkey_changes, enq_count, applied, armed_during >>

\* toggle_recording (tray menu) up to its branch
toggle_recording ==
    /\ phase = "running"
    /\ trig["tray"] = "idle"
    /\ triggers > 0
    /\ triggers' = triggers - 1
    /\ trig' = [trig EXCEPT !["tray"] = toggle_branch(is_recording)]
    /\ TrigUnchanged
    /\ UNCHANGED << is_recording, audio_data, current_status, update_queue, after_queue,
                    workers, enq_count, armed_during >>

\* (faulty variant of start_recording_guard: start_recording without its files_ok test)
start_recording_unguarded(ok) == TRUE

\* start_recording, first step: the files_ok test and is_recording = True
start_recording_guard(ok) == ok

start_recording(t) ==
    /\ phase = "running"
    /\ trig[t] = "start"
    /\ IF start_recording_guard(files_ok)
       THEN /\ is_recording' = TRUE
            /\ armed_during' = (armed_during \/ SomeWorkerRunning)
            /\ trig' = [trig EXCEPT ![t] = "clear"]
       ELSE /\ trig' = [trig EXCEPT ![t] = "idle"]
            /\ UNCHANGED << is_recording, armed_during >>
    /\ TrigUnchanged
    /\ UNCHANGED << audio_data, current_status, update_queue, after_queue, workers,
                    enq_count, triggers >>

\* the buffer after `self.audio_data = []`
new_buffer(old) == << >>

\* start_recording: self.audio_data = []
start_clear(t) ==
    /\ phase = "running"
    /\ trig[t] = "clear"
    /\ audio_data' = new_buffer(audio_data)
    /\ trig' = [trig EXCEPT ![t] = "status"]
    /\ TrigUnchanged
    /\ UNCHANGED << is_recording, current_status, update_queue, after_queue, workers,
                    enq_count, triggers, armed_during >>

\* (faulty variant of status_after_start: an error status is kept)
status_after_start_sticky(old) == IF old = STATUS_ERROR THEN old ELSE STATUS_RECORDING

\* current_status after the update_status(STATUS_RECORDING) of start_recording
status_after_start(old) == STATUS_RECORDING

\* start_recording: update_status(STATUS_RECORDING), its assignment
start_status(t) ==
    /\ phase = "running"
    /\ trig[t] = "status"
    /\ current_status' = status_after_start(current_status)
    /\ trig' = [trig EXCEPT ![t] = "put"]
    /\ TrigUnchanged
    /\ UNCHANGED << is_recording, audio_data, update_queue, after_queue, workers,
                    enq_count, triggers, armed_during >>

\* start_recording: update_status(STATUS_RECORDING), its queue.put
start_put(t) ==
    /\ phase = "running"
    /\ trig[t] = "put"
    /\ update_queue' = Append(update_queue,
                              StatusEntry(STATUS_RECORDING, << >>, enq_count + 1))
    /\ enq_count' = enq_count + 1
    /\ trig' = [trig EXCEPT ![t] = "show"]
    /\ TrigUnchanged
    /\ UNCHANGED << is_recording, audio_data, current_status, after_queue, workers,
                    triggers, armed_during >>

\* start_recording: root.after(0, show('recording')); the beep thread touches
\* no state of the program
start_show(t) ==
    /\ phase = "running"
    /\ trig[t] = "show"
    /\ after_queue' = Append(after_queue, "show_recording")
    /\ trig' = [trig EXCEPT ![t] = "idle"]
    /\ TrigUnchanged
    /\ UNCHANGED << is_recording, audio_data, current_status, update_queue, workers,
                    enq_count, triggers, armed_during >>

\* stop_recording: if not self.is_recording: return
stop_check(t) ==
    /\ phase = "running"
    /\ trig[t] = "stop"
    /\ trig' = [trig EXCEPT ![t] = IF is_recording THEN "stop_set" ELSE "idle"]
    /\ TrigUnchanged
    /\ UNCHANGED << is_recording, audio_data, current_status, update_queue, after_queue,
                    workers, enq_count, triggers, armed_during >>

\* stop_recording: self.is_recording = False, then the worker thread is
\* started (the thread's own first step comes later)
stop_recording(t) ==
    /\ phase = "running"
    /\ trig[t] = "stop_set"
    /\ is_recording' = FALSE
    /\ workers' = Append(workers,
                         NewWorker(audio_data,
                                   audio_pc = "idle"
                                     /\ \A u \in Threads \ {t} : trig[u] = "idle"))
    /\ trig' = [trig EXCEPT ![t] = "idle"]
    /\ TrigUnchanged
    /\ UNCHANGED << audio_data, current_status, update_queue, after_queue,
                    enq_count, triggers, armed_during >>

\* ------------------------------------------------- audio callback thread
\* audio_callback: if self.is_recording (the chunk is dropped otherwise)
audio_check(f) ==
    /\ phase = "running" /\ listening
    /\ audio_pc = "idle"
    /\ is_recording
    /\ Len(audio_data) < MaxChunks
    /\ audio_pc' = "append"
    /\ audio_chunk' = f
    /\ UNCHANGED << phase, whisper_exists, model_exists, files_ok, error_message,
                    listening, settings, settings_file, settings_writable, is_recording, audio_data, current_status,
                    last_transcription, update_queue, after_queue, indicator,
                    status_label, transcription_text, ui_pc, trig, workers, clipboard,
                    triggers, hotkey_changes, enq_count, applied,
                    armed_during, ctrl_pressed, shift_pressed, alt_pressed, held >>

\* audio_callback: self.audio_data.append(indata.copy())
audio_append ==
    /\ phase = "running"
    /\ audio_pc = "append"
    /\ audio_data' = Append(audio_data, audio_chunk)
    /\ audio_pc' = "idle"
    /\ audio_chunk' = 0
    /\ UNCHANGED << phase, whisper_exists, model_exists, files_ok, error_message,
                    listening, settings, settings_file, settings_writable, is_recording, current_status,
                    last_transcription, update_queue, after_queue, indicator,
                    status_label, transcription_text, ui_pc, trig, workers, clipboard,
                    triggers, hotkey_changes, enq_count, applied,
                    armed_during, ctrl_pressed, shift_pressed, alt_pressed, held >>

\* ------------------------------------------------------ worker threads
WorkerUnchanged ==
    UNCHANGED << phase, whisper_exists, model_exists, files_ok, error_message, listening,
                 settings, settings_file, settings_writable, is_recording, audio_data, indicator, status_label,
                 transcription_text, ui_pc, trig, audio_pc, audio_chunk, triggers,
                 hotkey_changes, applied, armed_during,
                 ctrl_pressed, shift_pressed, alt_pressed, held >>

\* update_status(state, message) followed by root.after(0, cb), as the three
\* steps a worker takes next; fin: the finally clause runs after them
Exit(w, state, message, fin) ==
    [w EXCEPT !.pc = "set_status", !.st = state, !.msg = message, !.cb = "hide",
              !.next = IF fin THEN "finally_done" ELSE "done"]

\* duration = len(recording) / SAMPLE_RATE; duration < 0.5
too_short(n) == 2 * n < SAMPLE_RATE

\* process_recording: if len(self.audio_data) == 0
process_recording_begin(i) ==
    /\ phase = "running"
    /\ i \in 1..Len(workers)
    /\ workers[i].pc = "begin"
    /\ workers' = [workers EXCEPT ![i] =
                     IF Len(audio_data) = 0
                     THEN Exit(@, STATUS_READY, << >>, FALSE)
                     ELSE [@ EXCEPT !.pc = "concat"]]
    /\ WorkerUnchanged
    /\ UNCHANGED << current_status, last_transcription, update_queue, after_queue,
                    clipboard, enq_count >>

\* process_recording: np.concatenate(self.audio_data) (ValueError on an empty
\* list, outside the try block), then the duration test
process_recording_concat(i) ==
    /\ phase = "running"
    /\ i \in 1..Len(workers)
    /\ workers[i].pc = "concat"
    /\ workers' = [workers EXCEPT ![i] =
                     IF audio_data = << >>
                     THEN [@ EXCEPT !.pc = "crashed"]
                     ELSE IF too_short(SumSeq(audio_data))
                     THEN Exit([@ EXCEPT !.recording = SumSeq(audio_data)],
                               STATUS_READY, << >>, FALSE)
                     ELSE [@ EXCEPT !.recording = SumSeq(audio_data),
                                    !.pc = "set_status", !.st = STATUS_TRANSCRIBING,
                                    !.msg = << >>, !.cb = "show_transcribing",
                                    !.next = "transcribe"]]
    /\ WorkerUnchanged
    /\ UNCHANGED << current_status, last_transcription, update_queue, after_queue,
                    clipboard, enq_count >>

\* update_status: self.current_status = state
worker_set_status(i) ==
    /\ phase = "running"
    /\ i \in 1..Len(workers)
    /\ workers[i].pc = "set_status"
    /\ current_status' = workers[i].st
    /\ workers' = [workers EXCEPT ![i].pc = "put_status"]
    /\ WorkerUnchanged
    /\ UNCHANGED << last_transcription, update_queue, after_queue, clipboard, enq_count >>

\* update_status: self.update_queue.put(("status", state, message))
worker_put_status(i) ==
    /\ phase = "running"
    /\ i \in 1..Len(workers)
    /\ workers[i].pc = "put_status"
    /\ update_queue' = Append(update_queue,
                              StatusEntry(workers[i].st, workers[i].msg, enq_count + 1))
    /\ enq_count' = enq_count + 1
    /\ workers' = [workers EXCEPT ![i].pc = "after", ![i].last_status = workers[i].st]
    /\ WorkerUnchanged
    /\ UNCHANGED << current_status, last_transcription, after_queue, clipboard >>

\* (faulty variant of finally_remove: the file is left where it is)
finally_remove_skipped(exists) == exists

\* the finally clause of process_recording: whether temp_wav exists after
\* `if os.path.exists(temp_wav): os.remove(temp_wav)`
finally_remove(exists) == FALSE

\* root.after(0, ghost_indicator.hide / show('transcribing')); after the hide
\* of the except clause the finally clause removes the temp file
worker_after(i) ==
    /\ phase = "running"
    /\ i \in 1..Len(workers)
    /\ workers[i].pc = "after"
    /\ after_queue' = Append(after_queue, workers[i].cb)
    /\ workers' = [workers EXCEPT ![i] =
                     [@ EXCEPT !.pc = IF workers[i].next = "transcribe"
                                      THEN "transcribe" ELSE "done",
                               !.showed = (@ \/ workers[i].cb = "show_transcribing"),
                               !.hide_after = (workers[i].cb = "hide"),
                               !.temp_exists = IF workers[i].next = "finally_done"
                                               THEN finally_remove(@) ELSE @]]
    /\ WorkerUnchanged
    /\ UNCHANGED << current_status, last_transcription, update_queue, clipboard,
                    enq_count >>

\* (faulty variant of transcribe: the exit code is not looked at)
transcribe_ignores_exit_code(raised, rc, stdout) ==
    IF raised THEN None ELSE strip(stdout)

\* transcribe(audio_file): None when subprocess.run raises or the process
\* exits non-zero, else its standard output stripped
transcribe(raised, rc, stdout) ==
    IF raised THEN None
    ELSE IF rc # 0 THEN None
    ELSE strip(stdout)

\* process_recording: the try block up to `if text:` (wav.write, transcribe).
\* wav.write may raise (and may have created the file by then).
process_recording_transcribe(i) ==
    /\ phase = "running"
    /\ i \in 1..Len(workers)
    /\ workers[i].pc = "transcribe"
    /\ \/ \E left \in BOOLEAN :
            workers' = [workers EXCEPT ![i] =
                Exit([@ EXCEPT !.temp_exists = left, !.outcome = "write_raised"],
                     STATUS_ERROR, <<"exception">>, TRUE)]
       \/ \E raised \in BOOLEAN, rc \in {0, 1}, stdout \in Outputs :
            LET text == transcribe(raised, rc, stdout)
                w1 == [workers[i] EXCEPT !.temp_written = TRUE, !.invoked = TRUE,
                                         !.text = text,
                                         !.outcome = IF raised THEN "launch_raised"
                                                     ELSE IF rc # 0 THEN "nonzero"
                                                     ELSE IF isblank(stdout) THEN "exit0_blank"
                                                     ELSE "exit0_text"]
            IN  workers' = [workers EXCEPT ![i] =
                    IF truthy(text)
                    THEN [w1 EXCEPT !.pc = "set_last", !.temp_exists = TRUE]
                    ELSE Exit([w1 EXCEPT !.temp_exists = finally_remove(TRUE)],
                              STATUS_READY, << >>, FALSE)]
    /\ WorkerUnchanged
    /\ UNCHANGED << current_status, last_transcription, update_queue, after_queue,
                    clipboard, enq_count >>

\* update_transcription: self.last_transcription = text
worker_set_last(i) ==
    /\ phase = "running"
    /\ i \in 1..Len(workers)
    /\ workers[i].pc = "set_last"
    /\ last_transcription' = workers[i].text
    /\ workers' = [workers EXCEPT ![i].pc = "put_text"]
    /\ WorkerUnchanged
    /\ UNCHANGED << current_status, update_queue, after_queue, clipboard, enq_count >>

\* update_transcription: self.update_queue.put(("transcription", text))
worker_put_text(i) ==
    /\ phase = "running"
    /\ i \in 1..Len(workers)
    /\ workers[i].pc = "put_text"
    /\ update_queue' = Append(update_queue,
                              TranscriptionEntry(workers[i].text, enq_count + 1))
    /\ enq_count' = enq_count + 1
    /\ workers' = [workers EXCEPT ![i].pc = "copy", ![i].enq_text = TRUE]
    /\ WorkerUnchanged
    /\ UNCHANGED << current_status, last_transcription, after_queue, clipboard >>

\* type_text: returns at once for empty or whitespace-only text
type_text_skips(text) == ~truthy(text) \/ isspace(text)

\* type_text up to pyperclip.copy(text.strip()); ok: the copy did not raise
type_text_copy(i) ==
    /\ phase = "running"
    /\ i \in 1..Len(workers)
    /\ workers[i].pc = "copy"
    /\ IF type_text_skips(workers[i].text)
       THEN /\ workers' = [workers EXCEPT ![i] =
                             Exit([@ EXCEPT !.temp_exists = finally_remove(@)],
                                  STATUS_READY, << >>, FALSE)]
            /\ UNCHANGED clipboard
       ELSE \E ok \in BOOLEAN :
              IF ok
              THEN /\ clipboard' = strip(workers[i].text)
                   /\ workers' = [workers EXCEPT ![i].pc = "paste", ![i].copied = TRUE]
              ELSE /\ UNCHANGED clipboard
                   /\ workers' = [workers EXCEPT ![i] =
                                    Exit(@, STATUS_ERROR, <<"exception">>, TRUE)]
    /\ WorkerUnchanged
    /\ UNCHANGED << current_status, last_transcription, update_queue, after_queue,
                    enq_count >>

\* type_text: the paste delay, then Ctrl+V; ok: the keystroke did not raise.
\* The try block ends here and the finally clause removes the temp file.
type_text_paste(i) ==
    /\ phase = "running"
    /\ i \in 1..Len(workers)
    /\ workers[i].pc = "paste"
    /\ \E ok \in BOOLEAN :
         workers' = [workers EXCEPT ![i] =
             IF ok
             THEN Exit([@ EXCEPT !.pasted = TRUE, !.temp_exists = finally_remove(@)],
                       STATUS_READY, << >>, FALSE)
             ELSE Exit(@, STATUS_ERROR, <<"exception">>, TRUE)]
    /\ WorkerUnchanged
    /\ UNCHANGED << current_status, last_transcription, update_queue, after_queue,
                    clipboard, enq_count >>

\* ------------------------------------------------------------ UI thread
UIUnchanged ==
    UNCHANGED << phase, whisper_exists, model_exists, files_ok, error_message,
                 is_recording, audio_data, last_transcription, trig, audio_pc,
                 audio_chunk, workers, clipboard, triggers, armed_during,
                 ctrl_pressed, shift_pressed, alt_pressed, held >>

\* poll_updates is entered (the timer set by root.after(50, ...) fired)
poll_begin ==
    /\ phase = "running"
    /\ ui_pc = "loop"
    /\ ui_pc' = "polling"
    /\ UIUnchanged
    /\ UNCHANGED << listening, settings, settings_file, settings_writable, current_status, update_queue, after_queue,
                    indicator, status_label, transcription_text, hotkey_changes,
                    enq_count, applied >>

\* get_nowait raises queue.Empty
queue_empty(q) == q = << >>

\* (faulty variant of next_update: a LIFO queue)
next_update_lifo(q) == q[Len(q)]

\* (faulty variant of rest_updates: the queue is emptied by one get)
rest_updates_dropped(q) == << >>

\* the entry get_nowait returns
next_update(q) == Head(q)

rest_updates(q) == Tail(q)

\* poll_updates: one turn of its loop, get_nowait and the update applied
poll_get ==
    /\ phase = "running"
    /\ ui_pc = "polling"
    /\ ~queue_empty(update_queue)
    /\ LET update == next_update(update_queue)
       IN  /\ update_queue' = rest_updates(update_queue)
           /\ applied' = Append(applied, update.id)
           /\ IF update.kind = "status"
              THEN /\ status_label' = status_label_of(update.state, status_label)
                   /\ transcription_text' =
                        status_text_of(update.state, update.text, settings["hotkey"].v,
                                       transcription_text)
              ELSE /\ transcription_text' = update.text
                   /\ UNCHANGED status_label
    /\ UIUnchanged
    /\ UNCHANGED << listening, settings, settings_file, settings_writable, current_status, after_queue, indicator, ui_pc,
                    hotkey_changes, enq_count >>

\* poll_updates: queue.Empty ends the loop and the next poll is scheduled
poll_end ==
    /\ phase = "running"
    /\ ui_pc = "polling"
    /\ queue_empty(update_queue)
    /\ ui_pc' = "loop"
    /\ UIUnchanged
    /\ UNCHANGED << listening, settings, settings_file, settings_writable, current_status, update_queue, after_queue,
                    indicator, status_label, transcription_text, hotkey_changes,
                    enq_count, applied >>

\* GhostIndicator.show(status) / hide(): the status the indicator is left in
indicator_after(cb) ==
    CASE cb = "show_recording" -> "recording"
      [] cb = "show_transcribing" -> "transcribing"
      [] OTHER -> "idle"

\* the UI thread runs the oldest root.after(0, ...) callback
run_after ==
    /\ phase = "running"
    /\ ui_pc = "loop"
    /\ after_queue # << >>
    /\ indicator' = indicator_after(Head(after_queue))
    /\ after_queue' = Tail(after_queue)
    /\ UIUnchanged
    /\ UNCHANGED << listening, settings, settings_file, settings_writable, current_status, update_queue, status_label,
                    transcription_text, ui_pc, hotkey_changes, enq_count, applied >>

\* on_hotkey_changed(choice): the setting, _update_status_ui(current_status)
\* past the queue, then restart_keyboard_listener (stop waits for a running
\* audio callback)
on_hotkey_changed(choice) ==
    /\ phase = "running"
    /\ ui_pc = "loop"
    /\ audio_pc = "idle"
    /\ hotkey_changes > 0
    /\ hotkey_changes' = hotkey_changes - 1
    /\ settings' = [settings EXCEPT !["hotkey"] = PyStr(choice)]
    /\ settings_file' = save_settings(settings', settings_file, settings_writable)
    /\ UNCHANGED settings_writable
    /\ status_label' = status_label_of(current_status, status_label)
    /\ transcription_text' = status_text_of(current_status, << >>, choice, transcription_text)
    /\ \E ok \in BOOLEAN : start_keyboard_listener(ok)
    /\ UIUnchanged
    /\ UNCHANGED << after_queue, indicator, ui_pc, applied >>

\* on_sound_changed, on_delay_changed, on_minimized_changed and
\* on_startup_changed (UI thread): the option is set and the settings saved
set_setting(key, value) ==
    /\ phase = "running"
    /\ ui_pc = "loop"
    /\ hotkey_changes > 0
    /\ hotkey_changes' = hotkey_changes - 1
    /\ settings' = [settings EXCEPT ![key] = value]
    /\ settings_file' = save_settings(settings', settings_file, settings_writable)
    /\ UIUnchanged
    /\ UNCHANGED << listening, settings_writable, current_status, update_queue,
                    after_queue, indicator, status_label, transcription_text, ui_pc,
                    enq_count, applied >>

on_sound_changed(value) == set_setting("sound_enabled", PyBool(value))

on_delay_changed(value) == set_setting("paste_delay", PyFloat(value))

on_minimized_changed(value) == set_setting("start_minimized", PyBool(value))

\* (update_startup_registry touches the registry only)
on_startup_changed(value) == set_setting("run_on_startup", PyBool(value))

\* quit_app (UI thread): recording and the listeners are stopped, the
\* settings saved, the main loop left; the process ends and its daemon
\* threads with it
quit_app ==
    /\ phase = "running"
    /\ ui_pc = "loop"
    /\ audio_pc = "idle"
    /\ phase' = "exited"
    /\ is_recording' = FALSE
    /\ listening' = FALSE
    /\ settings_file' = save_settings(settings, settings_file, settings_writable)
    /\ UNCHANGED << whisper_exists, model_exists, files_ok, error_message, settings,
                    settings_writable, audio_data, current_status, last_transcription,
                    update_queue, after_queue, indicator, status_label,
                    transcription_text, ui_pc, trig, audio_pc, audio_chunk, workers,
                    clipboard, triggers, hotkey_changes, enq_count, applied,
                    armed_during, ctrl_pressed, shift_pressed, alt_pressed, held >>

\* GhostWriterApp.__init__ in a new process, after the previous one exited
GhostWriterApp ==
    /\ phase = "exited"
    /\ phase' = "constructed"
    /\ settings' = load_settings(DEFAULT_SETTINGS, settings_file)
    /\ files_ok' = check_files_exist(whisper_exists, model_exists)
    /\ error_message' = missing_message(whisper_exists, model_exists)
    /\ listening' = FALSE
    /\ is_recording' = FALSE
    /\ audio_data' = << >>
    /\ current_status' = STATUS_READY
    /\ last_transcription' = << >>
    /\ update_queue' = << >>
    /\ after_queue' = << >>
    /\ indicator' = "idle"
    /\ status_label' = "Ready"
    /\ transcription_text' = <<"Press F8 to dictate...">>
    /\ ui_pc' = "loop"
    /\ trig' = [t \in Threads |-> "idle"]
    /\ audio_pc' = "idle"
    /\ audio_chunk' = 0
    /\ workers' = << >>
    /\ enq_count' = 0
    /\ applied' = << >>
    /\ ctrl_pressed' = FALSE
    /\ shift_pressed' = FALSE
    /\ alt_pressed' = FALSE
    /\ UNCHANGED << whisper_exists, model_exists, settings_file, settings_writable,
                    clipboard, triggers, hotkey_changes, armed_during, held >>

\* ------------------------------------------------------- specification
TriggerStep ==
    \E t \in Threads :
        \/ start_recording(t)
        \/ start_clear(t)
        \/ start_status(t)
        \/ start_put(t)
        \/ start_show(t)
        \/ stop_check(t)
        \/ stop_recording(t)

WorkerStep ==
    \E i \in 1..Len(workers) :
        \/ process_recording_begin(i)
        \/ process_recording_concat(i)
        \/ worker_set_status(i)
        \/ worker_put_status(i)
        \/ worker_after(i)
        \/ process_recording_transcribe(i)
        \/ worker_set_last(i)
        \/ worker_put_text(i)
        \/ type_text_copy(i)
        \/ type_text_paste(i)

PollStep == poll_begin \/ poll_get \/ poll_end

\* The keyboard, tray, audio and worker threads.
NextCore ==
    \/ Run
    \/ \E key \in Keys : on_key_press(key)
    \/ \E key \in Keys : on_other_key(key)
    \/ toggle_recording
    \/ TriggerStep
    \/ \E f \in Frames : audio_check(f)
    \/ audio_append
    \/ WorkerStep

\* The same and the UI thread's poll loop and indicator callbacks.
NextPoll ==
    \/ NextCore
    \/ PollStep
    \/ run_after

\* The whole program: the settings handler too.
Next ==
    \/ NextPoll
    \/ \E choice \in HOTKEY_OPTIONS : on_hotkey_changed(choice)

Init == InitOf(MaxTriggers, MaxHotkeyChanges, {NoFile}, {TRUE})

Spec == Init /\ [][Next]_vars

\* The program while the UI thread runs none of its handlers. No step of
\* NextCore reads a variable the UI thread writes, but for listening and
\* hotkey, which only select the key and audio events that are delivered.
InitSession == InitOf(MaxTriggers, 0, {NoFile}, {TRUE})

SpecSession == InitSession /\ [][NextCore]_vars

\* The program while the hotkey setting is left alone.
SpecPoll == InitSession /\ [][NextPoll]_vars

\* poll_updates reschedules itself with root.after(50, ...) at the end of every
\* tick, and the main loop runs it: the poll loop keeps taking steps.
FairSpecPoll == SpecPoll /\ WF_vars(PollStep)

\* The same with one trigger more: a trigger can follow a stop whose worker
\* is still running.
InitCore == InitOf(MaxTriggersCore, 0, {NoFile}, {TRUE})

SpecCore == InitCore /\ [][NextCore]_vars

\* The program driven from the keyboard only: the listener thread delivers
\* the key presses one at a time.
NextKeyboard ==
    \/ Run
    \/ \E key \in Keys : on_key_press(key)
    \/ \E key \in Keys : on_other_key(key)
    \/ TriggerStep
    \/ \E f \in Frames : audio_check(f)
    \/ audio_append
    \/ WorkerStep

SpecKeyboard == InitCore /\ [][NextKeyboard]_vars

\* The settings store: the settings window's handlers, quitting and starting
\* the application again, over the settings files below.
SettingsStep ==
    \/ \E value \in BOOLEAN : on_sound_changed(value)
    \/ \E value \in PASTE_DELAY_OPTIONS : on_delay_changed(value)
    \/ \E value \in BOOLEAN : on_minimized_changed(value)
    \/ \E value \in BOOLEAN : on_startup_changed(value)

NextSettings ==
    \/ Run
    \/ SettingsStep
    \/ \E choice \in HOTKEY_OPTIONS : on_hotkey_changed(choice)
    \/ quit_app
    \/ GhostWriterApp

\* the keys a settings file may hold: the recognized ones and an unknown one
FileKeys == SettingsKeys \cup {"theme"}

\* the value a settings file holds for a key
FileValues(key) ==
    CASE key = "hotkey" -> {JsonString("F9")}
      [] key = "sound_enabled" -> {JsonLiteral("false")}
      [] key = "paste_delay" -> {JsonNumber("0.5"), JsonNumber("1")}
      [] key = "start_minimized" -> {JsonLiteral("true")}
      [] key = "run_on_startup" -> {JsonLiteral("null")}
      [] OTHER -> {JsonString("dark")}

JsonValues == UNION {FileValues(key) : key \in FileKeys}

\* the settings files holding a JSON object
FileObjects ==
    UNION {{FileObject(doc) : doc \in {d \in [present -> JsonValues] :
                                          \A key \in present : d[key] \in FileValues(key)}} :
           present \in SUBSET FileKeys}

InitSettings ==
    /\ InitOf(0, MaxSettingsChanges,
              {NoFile, Unreadable, Unparsable} \cup NonObjectFiles \cup FileObjects, BOOLEAN)
    /\ whisper_exists
    /\ model_exists

SpecSettings == InitSettings /\ [][NextSettings]_vars

\* The hotkey: the keyboard listener over the whole keyboard (with the audio
\* and worker threads), the hotkey menu over the function keys, quitting and
\* starting the application again.
NextHotkey ==
    \/ Run
    \/ \E key \in AllKeys : on_key_press(key)
    \/ \E key \in AllKeys : on_other_key(key)
    \/ TriggerStep
    \/ \E f \in Frames : audio_check(f)
    \/ audio_append
    \/ WorkerStep
    \/ \E choice \in FUNCTION_KEYS : on_hotkey_changed(choice)
    \/ quit_app
    \/ GhostWriterApp

InitHotkey ==
    /\ InitOf(MaxTriggersHotkey, MaxSettingsChanges, {NoFile}, {TRUE})
    /\ whisper_exists
    /\ model_exists

SpecHotkey == InitHotkey /\ [][NextHotkey]_vars

\* The keyboard with its modifier keys: the listener thread handles the
\* presses and releases one at a time; the settings file holds a combination
\* hotkey or is absent (F8).
NextModifiers ==
    \/ Run
    \/ \E key \in ComboKeys : on_key_press(key)
    \/ \E key \in ComboKeys : on_other_key(key)
    \/ \E key \in ComboKeys : on_modifier_press(key)
    \/ \E key \in ComboKeys : on_key_release(key)
    \/ TriggerStep

ComboFiles == {FileObject([key \in {"hotkey"} |-> JsonString(hk)]) : hk \in COMBO_HOTKEYS}

InitModifiers ==
    /\ InitOf(MaxTriggersHotkey, 0, {NoFile} \cup ComboFiles, {TRUE})
    /\ whisper_exists
    /\ model_exists

SpecModifiers == InitModifiers /\ [][NextModifiers]_vars

\* ------------------------------------------------------------- claims
Worker(i) == workers[i]

WorkerIds == 1..Len(workers)

MissingFiles == ~(whisper_exists /\ model_exists)

\* C1: when the recognizer exits non-zero, the worker's status ends as error
\* and it neither writes the clipboard nor pastes.
C1_NonZeroExitIsError ==
    \A i \in WorkerIds :
        (Worker(i).outcome = "nonzero" /\ Worker(i).pc = "done")
            => /\ Worker(i).last_status = STATUS_ERROR
               /\ ~Worker(i).copied
               /\ ~Worker(i).pasted

\* C2 (its exit half): every worker that has ended has scheduled an indicator
\* hide, and no show after it.
C2_EveryExitHides ==
    \A i \in WorkerIds : ~WorkerRunning(Worker(i)) => Worker(i).hide_after

\* C3: no trigger sets is_recording while a worker of an earlier session is
\* still running process_recording.
C3_NoArmWhileProcessing == ~armed_during

\* the worker of a session that was started, recorded and stopped with no
\* other handler or audio callback under way at the stop
CleanStop(w) == w.stop_clean

\* C6: the worker of a session whose buffer is non-empty and shorter than
\* 0.5 s never invokes the recognizer, writes no temp file, does not paste,
\* and ends with the status set to ready.
C6_ShortSessionSkipsRecognizer ==
    \A i \in WorkerIds :
        (CleanStop(Worker(i)) /\ Worker(i).stop_chunks > 0
                              /\ 2 * Worker(i).stop_len < SAMPLE_RATE)
            => /\ ~Worker(i).invoked
               /\ ~Worker(i).temp_written
               /\ ~Worker(i).pasted
               /\ ~WorkerRunning(Worker(i)) => Worker(i).last_status = STATUS_READY

\* C7: the worker of a session stopped with zero chunks never invokes the
\* recognizer and ends with the status set to ready.
C7_EmptySessionSkipsRecognizer ==
    \A i \in WorkerIds :
        (CleanStop(Worker(i)) /\ Worker(i).stop_chunks = 0)
            => /\ ~Worker(i).invoked
               /\ ~WorkerRunning(Worker(i)) => Worker(i).last_status = STATUS_READY

\* C8: when the recognizer exits 0 with empty or whitespace-only output, the
\* worker writes no clipboard, pastes nothing, enqueues no transcription
\* update, and the status it sets is ready.
C8_BlankOutputNoPaste ==
    \A i \in WorkerIds :
        Worker(i).outcome = "exit0_blank"
            => /\ ~Worker(i).copied
               /\ ~Worker(i).pasted
               /\ ~Worker(i).enq_text
               /\ Worker(i).pc \in {"set_status", "put_status", "after", "done"}
               /\ Worker(i).st = STATUS_READY
               /\ Worker(i).pc \in {"after", "done"} => Worker(i).last_status = STATUS_READY

C8_Witness ==
    \E i \in WorkerIds :
        /\ Worker(i).outcome = "exit0_blank"
        /\ Worker(i).pc = "done"
        /\ Worker(i).invoked

\* C9: with a required file missing at startup, is_recording is never true,
\* no thread is past the files_ok test of start_recording or inside
\* stop_recording's body, and no worker exists.
C9_MissingFilesNeverArmed ==
    MissingFiles
        => /\ ~is_recording
           /\ workers = << >>
           /\ \A t \in Threads : trig[t] \in {"idle", "start", "stop"}

C9_Witness ==
    /\ MissingFiles
    /\ phase = "running"
    /\ triggers = 0
    /\ \A t \in Threads : trig[t] = "idle"

\* C10: with a required file missing at startup, the status is error from the
\* creation of the GUI on: current_status is error, every queued update is an
\* error status, and the label shows Error once the first update is applied.
C10_MissingFilesStatusStaysError ==
    (MissingFiles /\ phase = "running")
        => /\ current_status = STATUS_ERROR
           /\ \A k \in 1..Len(update_queue) :
                  update_queue[k].kind = "status" /\ update_queue[k].state = STATUS_ERROR
           /\ status_label \in {"Ready", "Error"}
           /\ applied # << >> => status_label = "Error"

C10_Witness ==
    /\ MissingFiles
    /\ phase = "running"
    /\ triggers = 0
    /\ hotkey_changes = 0
    /\ \A t \in Threads : trig[t] = "idle"
    /\ update_queue = << >>
    /\ status_label = "Error"

\* the ids of the entries in a queue, in order
Ids(q) == [k \in 1..Len(q) |-> q[k].id]

\* 1, 2, ..., n
UpTo(n) == [k \in 1..n |-> k]

\* C4: poll_updates applies the entries in the order they were put: the
\* applied entries are the first ones put, in that order, within one drain
\* and across drains.
C4_AppliedInEnqueueOrder ==
    /\ applied = UpTo(Len(applied))
    /\ Len(applied) <= enq_count

C4_Witness ==
    /\ ui_pc = "polling"
    /\ Len(applied) >= 2
    /\ Len(update_queue) >= 2
    /\ \E k \in 1..Len(update_queue) : update_queue[k].kind = "transcription"

\* every entry put so far is either applied or still queued, once
NoUpdateLost == applied \o Ids(update_queue) = UpTo(enq_count)

\* C5: no update is lost or applied twice, a poll tick ends only with the
\* queue empty, and the poll loop applies every entry that was put.
C5_NoUpdateLost ==
    /\ []NoUpdateLost
    /\ [][(ui_pc = "polling" /\ ui_pc' = "loop") => update_queue = << >>]_vars
    /\ []<>(Len(applied) = enq_count)

C5_Witness ==
    /\ ui_pc = "loop"
    /\ Len(applied) = enq_count
    /\ enq_count >= 4
    /\ \E i \in WorkerIds : Worker(i).enq_text /\ Worker(i).pc = "done"

\* C11: on every exit path of process_recording after the temp file path is
\* chosen, the temp file does not exist when the worker has finished; a worker
\* that ends before that point has written none.
C11_TempFileDeleted ==
    \A i \in WorkerIds :
        ~WorkerRunning(Worker(i))
            => /\ ~Worker(i).temp_exists
               /\ Worker(i).outcome = "" => ~Worker(i).temp_written

\* a finished worker whose paste raised after the recognizer read the file
C11_Witness ==
    \E i \in WorkerIds :
        /\ Worker(i).pc = "done"
        /\ Worker(i).temp_written
        /\ Worker(i).copied
        /\ ~Worker(i).pasted
        /\ Worker(i).last_status = STATUS_ERROR

\* C12: no run of process_recording terminates with an unhandled exception:
\* every worker that has ended did so after enqueuing a ready or an error
\* status.
C12_NoErrorEscapesWorker ==
    \A i \in WorkerIds :
        /\ Worker(i).pc # "crashed"
        /\ Worker(i).pc = "done" => Worker(i).last_status \in {STATUS_READY, STATUS_ERROR}

\* a worker is between its test of the buffer and its concatenation of it
SomeWorkerReading == \E i \in WorkerIds : Worker(i).pc \in {"begin", "concat"}

\* C13: audio_callback appends to audio_data only while the session is armed
\* and no worker is reading the buffer: no append lands after stop_recording
\* has cleared is_recording.
C13_NoAppendAfterStop ==
    [][(audio_pc = "append" /\ audio_pc' = "idle")
          => (is_recording /\ ~SomeWorkerReading)]_vars

\* C14: the worker spawned by a session's stop concatenates the chunks of
\* that session only: what it concatenated is the buffer as the session left
\* it at its stop.
C14_BufferConsumedBySessionWorker ==
    \A i \in WorkerIds :
        (CleanStop(Worker(i)) /\ Worker(i).recording # 0)
            => Worker(i).recording = Worker(i).stop_len

\* C15: current_status is written by worker threads only: every step that
\* changes it is the assignment of update_status run by a worker.
C15_StatusWrittenByWorkerOnly ==
    [][current_status' # current_status
          => \E i \in WorkerIds : /\ Worker(i).pc = "set_status"
                                  /\ workers'[i].pc = "put_status"]_vars

\* C16: the displayed status changes only when poll_updates applies a
\* dequeued status entry: every step that changes the status label takes the
\* head of update_queue, a status entry, and records it as applied.
C16_StatusRenderedViaQueueOnly ==
    [][status_label' # status_label
          => /\ ui_pc = "polling"
             /\ update_queue # << >>
             /\ Head(update_queue).kind = "status"
             /\ applied' = Append(applied, Head(update_queue).id)]_vars

\* the Python value a JSON value of a file stands for
Denotes(y, x) ==
    \/ y.j = "string" /\ x = PyStr(y.v)
    \/ y.j = "literal" /\ y.v = "true" /\ x = PyBool(TRUE)
    \/ y.j = "literal" /\ y.v = "false" /\ x = PyBool(FALSE)
    \/ y.j = "literal" /\ y.v = "null" /\ x = PyNone
    \/ y.j = "number" /\ x.v = y.v /\ x.t \in {"float", "int"}

\* C17: after construction over a settings file holding a JSON object, each
\* of the five recognized keys has the file's value if the file has the key
\* and the default otherwise, and the settings have no key but the five.
C17_LoadMergesWithDefaults ==
    (phase = "constructed" /\ settings_file.kind = "object")
        => /\ DOMAIN settings = SettingsKeys
           /\ \A key \in SettingsKeys :
                  IF key \in DOMAIN settings_file.doc
                  THEN Denotes(settings_file.doc[key], settings[key])
                  ELSE settings[key] = DEFAULT_SETTINGS[key]

\* the application started again over a file it could not write, which has
\* an unknown key, two recognized keys and the others missing
C17_Witness ==
    /\ phase = "constructed"
    /\ hotkey_changes < MaxSettingsChanges
    /\ ~settings_writable
    /\ settings_file.kind = "object"
    /\ DOMAIN settings_file.doc = {"theme", "hotkey", "paste_delay"}
    /\ settings["hotkey"] = PyStr("F9")
    /\ settings["sound_enabled"] = PyBool(TRUE)

\* the settings after save_settings and a load_settings in a new process
SaveThenLoad(d) ==
    load_settings(DEFAULT_SETTINGS, save_settings(d, settings_file, TRUE))

\* C18: a save then a load returns the settings that were saved, and a second
\* save and load returns the same again; the application started again after
\* quit_app saved its settings has the settings it had.
C18_SaveLoadIdempotent ==
    /\ [](/\ SaveThenLoad(settings) = settings
          /\ SaveThenLoad(SaveThenLoad(settings)) = SaveThenLoad(settings))
    /\ [][(phase = "exited" /\ phase' = "constructed" /\ settings_writable)
             => settings' = settings]_vars

\* started again with a delay the handler set and a value the first file held
C18_Witness ==
    /\ phase = "constructed"
    /\ settings_writable
    /\ hotkey_changes < MaxSettingsChanges
    /\ settings["paste_delay"] = PyFloat("0.25")
    /\ settings["run_on_startup"] = PyNone
    /\ settings_file = FileObject(json_dump(settings))

\* the listener is ready to handle a key press
ListenerIdle ==
    /\ phase = "running"
    /\ listening
    /\ trig["kbd"] = "idle"
    /\ triggers > 0

\* C19: for every function-key hotkey setting, a key press toggles recording
\* if and only if the pressed key is the key of the setting; the application
\* started again after a change of the hotkey has the changed hotkey.
C19_ListenerRespondsToHotkey ==
    /\ [](ListenerIdle
            => /\ settings["hotkey"].v \in FUNCTION_KEYS
               /\ \A key \in AllKeys :
                      (ENABLED on_key_press(key)) <=> (key = KeyName[settings["hotkey"].v]))
    /\ [][(phase = "exited" /\ phase' = "constructed")
             => settings'["hotkey"] = settings["hotkey"]]_vars

\* the application started again with the hotkey changed to F9 (the text
\* area still as create_gui left it) has just taken a press of F9
C19_Witness ==
    /\ phase = "running"
    /\ settings["hotkey"] = PyStr("F9")
    /\ transcription_text = <<"Press F8 to dictate...">>
    /\ trig["kbd"] = "start"
    /\ triggers = MaxTriggersHotkey - 1

\* t is s with its leading and trailing whitespace removed: t stands in s
\* between whitespace only, and neither begins nor ends with whitespace
IsTrimOf(t, s) ==
    /\ t = << >> \/ (t[1] # " " /\ t[Len(t)] # " ")
    /\ \E lead \in 0..Len(s) :
          /\ lead + Len(t) <= Len(s)
          /\ \A k \in 1..Len(t) : t[k] = s[lead + k]
          /\ \A k \in 1..Len(s) : (k <= lead \/ k > lead + Len(t)) => s[k] = " "

\* C20: transcribe returns None when launching the recognizer raises or it
\* exits non-zero, and the trimmed standard output when it exits with 0; it
\* does not raise: its caller goes on past the call, never to the except
\* clause (whose status is error), when the result is None or empty.
C20_TranscribeContract ==
    \A i \in WorkerIds :
        /\ Worker(i).outcome \in {"launch_raised", "nonzero"}
              => /\ Worker(i).text = None
                 /\ Worker(i).st = STATUS_READY
        /\ Worker(i).outcome = "exit0_blank" => Worker(i).text = << >>
        /\ Worker(i).outcome = "exit0_text"
              => \E stdout \in Outputs : ~isblank(stdout) /\ IsTrimOf(Worker(i).text, stdout)

\* a finished worker whose recognizer could not be launched
C20_Witness ==
    \E i \in WorkerIds :
        /\ Worker(i).pc = "done"
        /\ Worker(i).invoked
        /\ Worker(i).outcome = "launch_raised"
        /\ Worker(i).text = None

\* C21: for non-empty, non-whitespace text, type_text writes the trimmed
\* text to the clipboard before the paste keystroke and the clipboard holds
\* that text at the keystroke and after it; for empty or whitespace-only text
\* it touches neither the clipboard nor the keyboard.
C21_ClipboardBeforePaste ==
    /\ \A i \in WorkerIds :
          /\ Worker(i).pasted => Worker(i).copied
          /\ Worker(i).copied => ~type_text_skips(Worker(i).text)
          /\ Worker(i).pc = "paste" => clipboard = strip(Worker(i).text)
    /\ \A text \in {None} \cup Outputs : (text = None \/ isblank(text)) => type_text_skips(text)

\* C22: after construction over a settings file that cannot be read or
\* parsed, or whose document is no object, the settings are the defaults for
\* all five keys.
C22_BadSettingsFileGivesDefaults ==
    (phase = "constructed" /\ settings_file.kind \notin {"none", "object"})
        => /\ DOMAIN settings = SettingsKeys
           /\ \A key \in SettingsKeys : settings[key] = DEFAULT_SETTINGS[key]

\* the application started again, after a handler changed a setting, over a
\* file holding an array that it could not overwrite
C22_Witness ==
    /\ phase = "constructed"
    /\ settings_file = FileOther("array")
    /\ hotkey_changes < MaxSettingsChanges
    /\ settings = DEFAULT_SETTINGS

\* every scheduled UI callback has run and no trigger handler is under way
CallbacksDone == after_queue = << >> /\ \A t \in Threads : trig[t] = "idle"

\* a worker is between its show of the transcribing look and its exit
TranscriptionInProgress ==
    \E i \in WorkerIds :
        Worker(i).showed /\ Worker(i).pc \in {"transcribe", "set_last", "put_text", "copy", "paste"}

\* C23: whenever all scheduled UI callbacks have run, the indicator has the
\* recording look if the machine is armed, the transcribing look if a
\* transcription is in progress and the machine is not armed, and is hidden
\* if the machine is idle (not armed, no worker running).
C23_IndicatorReflectsPhase ==
    CallbacksDone
        => /\ is_recording => indicator = "recording"
           /\ (~is_recording /\ TranscriptionInProgress) => indicator = "transcribing"
           /\ (~is_recording /\ ~SomeWorkerRunning) => indicator = "idle"

\* C24: exactly one worker is spawned per recording session: a step spawns
\* a worker exactly when it ends an armed session (is_recording goes from
\* true to false), and it spawns one.
C24_OneWorkerPerSession ==
    [][/\ Len(workers') > Len(workers) => (is_recording /\ ~is_recording')
       /\ (is_recording /\ ~is_recording') => Len(workers') = Len(workers) + 1]_vars

\* the hotkey presses handled so far in SpecKeyboard
Presses == MaxTriggersCore - triggers

\* C25: with the required files present, after n hotkey presses handled one
\* at a time, is_recording is true exactly when n is odd and a worker has
\* been spawned for each even-numbered press.
C25_EveryPressToggles ==
    (phase = "running" /\ files_ok /\ trig["kbd"] = "idle")
        => /\ is_recording <=> (Presses % 2 = 1)
           /\ Len(workers) = Presses \div 2

\* three presses handled, the third while the worker of the second still runs
C25_Witness ==
    /\ files_ok
    /\ trig["kbd"] = "idle"
    /\ Presses = 3
    /\ is_recording
    /\ Len(workers) = 1
    /\ armed_during

\* C26: chunks accumulate only while armed: the buffer changes only by
\* audio_callback appending its chunk at the end, which it does only while
\* is_recording is true, or by start_recording emptying it; start_recording
\* leaves it empty. So the buffer holds, in arrival order, the chunks
\* appended since it was last cleared.
C26_ChunksAccumulateWhileArmed ==
    [][/\ audio_data' # audio_data
            => \/ /\ audio_pc = "append"
                  /\ is_recording
                  /\ audio_data' = Append(audio_data, audio_chunk)
               \/ audio_data' = << >> /\ \E t \in Threads : trig[t] = "clear"
       /\ \A t \in Threads :
              (trig[t] = "clear" /\ trig'[t] = "status") => audio_data' = << >>]_vars

\* no thread is inside start_recording
StartFinished == \A t \in Threads : trig[t] \notin {"clear", "status", "put", "show"}

\* C27: whenever is_recording is true and start_recording has finished,
\* current_status is recording: no worker's status write (transcribing,
\* ready or error) is the latest one while the machine is armed.
C27_ArmedMeansStatusRecording ==
    (is_recording /\ StartFinished) => current_status = STATUS_RECORDING

\* what an entry of update_queue is, for the order of a session's entries
EntryName(e) == IF e.kind = "transcription" THEN "text" ELSE e.state

\* the entries put so far, oldest first (SpecSession takes nothing out of
\* update_queue)
Enqueued == [k \in DOMAIN update_queue |-> EntryName(update_queue[k])]

\* s is the beginning of t
IsPrefix(s, t) == Len(s) <= Len(t) /\ s = SubSeq(t, 1, Len(s))

\* C28: a session that produces text enqueues, in this order, status
\* recording, status transcribing, the transcription text, status ready; the
\* transcription entry is enqueued before the clipboard write and the paste,
\* and the ready entry only after the paste keystroke has been issued.
C28_SessionEntriesInOrder ==
    \A i \in WorkerIds :
        /\ truthy(Worker(i).text)
              => \/ IsPrefix(Enqueued, <<STATUS_RECORDING, STATUS_TRANSCRIBING, "text",
                                        STATUS_READY>>)
                 \/ IsPrefix(Enqueued, <<STATUS_RECORDING, STATUS_TRANSCRIBING, "text",
                                        STATUS_ERROR>>)
        /\ Worker(i).copied => Worker(i).enq_text
        /\ Worker(i).pasted => Worker(i).copied
        /\ (Worker(i).enq_text /\ Worker(i).last_status = STATUS_READY) => Worker(i).pasted

\* worker i has ended a session that produced text and pasted it, and the
\* UI thread has applied every update put so far; no session has begun since
TextSessionApplied(i) ==
    /\ Worker(i).enq_text
    /\ Worker(i).pasted
    /\ Worker(i).pc = "done"
    /\ update_queue = << >>
    /\ ~is_recording
    /\ \A t \in Threads : trig[t] = "idle"

\* C29: once the UI has applied all queued updates of a session that
\* produced text, the transcription text area shows the recognized text,
\* which is last_transcription, until the next session begins.
C29_TextAreaShowsTranscription ==
    \A i \in WorkerIds :
        TextSessionApplied(i)
            => /\ last_transcription = Worker(i).text
               /\ transcription_text = last_transcription

\* the third hotkey press has been handled, a worker has ended the session
\* before it with status error, and that worker had ended when the press
\* armed the machine
PressAfterError ==
    /\ files_ok
    /\ Presses = 3
    /\ trig["kbd"] = "idle"
    /\ ~armed_during
    /\ \E i \in WorkerIds : Worker(i).last_status = STATUS_ERROR

\* C30: a runtime error status is not sticky: after a worker has ended with
\* status error and with the required files present, the next hotkey press
\* arms the machine and sets the status to recording.
C30_ErrorStatusNotSticky ==
    PressAfterError => (is_recording /\ current_status = STATUS_RECORDING)

\* the press after a session whose paste raised
C30_Witness ==
    /\ PressAfterError
    /\ \E i \in WorkerIds : Worker(i).copied /\ ~Worker(i).pasted
    /\ is_recording
    /\ current_status = STATUS_RECORDING

\* a key of the set is down
Held(keys) == held \cap keys # {}

\* the two modifiers of a combination hotkey are down
ModifiersHeld(hk) ==
    CASE hk = "Ctrl+Alt+V" -> Held(CtrlKeys) /\ Held(AltKeys)
      [] OTHER -> Held(CtrlKeys) /\ Held(ShiftKeys)

ComboLetter(hk) ==
    CASE hk = "Ctrl+Shift+R" -> "r" [] hk = "Ctrl+Shift+D" -> "d" [] OTHER -> "v"

\* C31: after any sequence of key presses and releases, each modifier flag
\* is true exactly when a key of that modifier (left or right) is down, so
\* a combination hotkey is triggered by a key press exactly when its two
\* modifiers are down and the key is its letter.
C31_ModifierFlagsTrackKeys ==
    /\ ctrl_pressed <=> Held(CtrlKeys)
    /\ shift_pressed <=> Held(ShiftKeys)
    /\ alt_pressed <=> Held(AltKeys)
    /\ \A hk \in COMBO_HOTKEYS :
          settings["hotkey"] = PyStr(hk)
              => \A key \in ComboKeys :
                    is_hotkey_pressed(settings["hotkey"], key)
                        <=> (key = ComboLetter(hk) /\ ModifiersHeld(hk))

====
